---- MODULE Spec2Model ----
(***************************************************************************)
(* Label layout of capellambse's SVG renderer: the text measurer           *)
(* (helpers.extent_func), the word wrapper (helpers.word_wrap), the        *)
(* horizontal and vertical overflow checks (svg/helpers.py) and the label  *)
(* positioner (svg/drawing.py).                                            *)
(*                                                                         *)
(* Strings are sequences of one-character strings.  Every length is an     *)
(* integer number of UNITs, fourteen to the pixel: extent_func scales the  *)
(* font's integer pixel sizes by 10/7 and the positioner halves widths,    *)
(* so every quantity the code computes is a whole number of UNITs.         *)
(***************************************************************************)
EXTENDS Integers, Sequences, FiniteSets, TLC

\* ------------------------------------------------------------------ bounds

\* Longest generated input text, in characters.
MaxLen == 4

\* Units per pixel (see the header).
PX == 2 * 7

NL == "\n"
SP == " "
DOT == "."
TAB == "\t"

\* The characters generated input texts are made of.
Alphabet == {"a", "W", SP, NL}

\* The texts of the worked examples, as character sequences.
TheQuickBrownFox ==
    <<"T","h","e",SP,"q","u","i","c","k",SP,"b","r","o","w","n",SP,"f","o","x">>
LineOne == <<"L","i","n","e",SP,"o","n","e">>
LineTwo == <<"L","i","n","e",SP,"t","w","o">>
LineThree == <<"L","i","n","e",SP,"t","h","r","e","e">>
ThreeLines == LineOne \o <<NL>> \o LineTwo \o <<NL>> \o LineThree
Hi == <<"H", "i">>
\* Lines with leading whitespace and with runs of whitespace between words.
TabbedLine == <<TAB, "a", TAB, SP, "a">>
IndentedLine == <<SP, TAB, "a", "a", SP, SP, "W">>
ExampleTexts == {TheQuickBrownFox, ThreeLines, Hi, TabbedLine, IndentedLine}

BoundedTexts == UNION {[1..n -> Alphabet] : n \in 0..MaxLen}
Texts == BoundedTexts \cup ExampleTexts

\* Widths word_wrap is called with directly (pixels): negative, zero,
\* narrower than any glyph, and wide enough for one to several glyphs.
WrapWidthsPx == {0 - 5, 0, 3, 10, 20, 30, 60, 90}

\* Label box geometry (pixels).
BoxWidthsPx == {10, 20, 30, 100, 200}
BoxHeightsPx == {0 - 5, 0, 10, 20, 30}
BoxXsPx == {0, 50}

\* ---------------------------------------------------------- text measurer

\* The font's glyph metrics in whole pixels (ImageFont's getsize): the advance
\* widths add up along a line, the line's height is that of its tallest glyph,
\* and the empty string measures (0, 0).
GlyphWidth(c) ==
    CASE c = SP -> 3
      [] c = DOT -> 2
      [] c = "W" -> 9
      [] OTHER -> 5

GlyphHeight(c) ==
    CASE c = SP -> 0
      [] c = DOT -> 1
      [] c = "W" -> 8
      [] OTHER -> 5

RECURSIVE getsize_width(_)
getsize_width(s) ==
    IF s = <<>> THEN 0 ELSE GlyphWidth(Head(s)) + getsize_width(Tail(s))

RECURSIVE getsize_height(_)
getsize_height(s) ==
    IF s = <<>> THEN 0
    ELSE LET h == GlyphHeight(Head(s))
             r == getsize_height(Tail(s))
         IN IF h > r THEN h ELSE r

\* The deterministic measurer of the worked examples: 10 px per character
\* and one fixed line height; (0, 0) for the empty string, as the measurer's
\* contract has it.
StubLineHeightPx == 10
StubExtent(s) ==
    [w |-> 10 * Len(s) * PX, h |-> IF s = <<>> THEN 0 ELSE StubLineHeightPx * PX]

VARIABLES
    measurer,       \* "font" | "stub": which measurer extent_func is
    text,           \* the text to lay out
    pc,             \* where the call in progress stands
    caller,         \* "direct" (word_wrap called as such) | "label"
    width,          \* word_wrap's width argument
    input_lines,    \* word_wrap's deque of pending input lines
    output_lines,   \* word_wrap's output so far
    char_split,     \* whether word_wrap took its character-level branch
    wrapped,        \* word_wrap's return value
    label,          \* builder.label: [x, width, height], each bound when first read
    render_icon,    \* whether the label gets an icon
    text_anchor,    \* builder.text_anchor: "start" | "middle"
    hbounded,       \* check_for_horizontal_overflow's (lines, label_margin, max_text_width)
    vbounded,       \* check_for_vertical_overflow's locals at its end
    lines_data,     \* render_hbounded_lines' LinesData
    position,       \* get_label_position_x's (x, icon_x)
    transform,      \* builder.labelstyle.transform as passed in, in tokens
    text_element,   \* the label's text element: in the group or not, its
                    \* transform attribute and its text spans
    extent_cache,   \* extent_func's lru_cache, least recently used first
    font_cache,     \* load_font's lru_cache, least recently used first
    fallback_loads, \* how often the fallback font file has been opened
    next_key,       \* the next fresh key of the measurement workload
    next_font,      \* the next font of the font-loading workload
    call,           \* the last call of extent_func or load_font and its result
    ssv,            \* ssvparse's arguments and its outcome
    defs,           \* the symbol definitions in the drawing's defs, in order
    deco_cache,     \* Drawing.deco_cache
    elements,       \* the drawing's elements, in order
    obj_cache,      \* Drawing.obj_cache
    drawn,          \* the last call of draw_object and what it raised
    STYLES,         \* aird.STYLES, the process-wide style table
    styles,         \* StyleBuilder.styles of the stylesheet built last
    made            \* the last stylesheet construction

wrap_vars == <<caller, width, input_lines, output_lines, char_split, wrapped>>
label_vars == <<label, render_icon, text_anchor, hbounded, vbounded, lines_data,
                position>>
draw_vars == <<transform, text_element>>
cache_vars == <<extent_cache, font_cache, fallback_loads, next_key, next_font,
                call>>
layout_vars == <<measurer, text, pc, wrap_vars, label_vars, draw_vars>>
drawing_vars == <<defs, deco_cache, elements, obj_cache, drawn>>
style_vars == <<STYLES, styles, made>>
vars == <<layout_vars, cache_vars, ssv, drawing_vars, style_vars>>

\* extent_func: (width, height) = the font's size scaled by 10/7 px, that is
\* by 20 UNITs.
FontExtent(s) == [w |-> getsize_width(s) * 20, h |-> getsize_height(s) * 20]

extent_func(s) == IF measurer = "stub" THEN StubExtent(s) ELSE FontExtent(s)

\* ------------------------------------------------------------ word wrapper

IsSpace(c) == c \in {SP, NL, TAB}

\* str.splitlines(): the pieces between line breaks, without a trailing empty
\* piece.
RECURSIVE splitlines(_)
splitlines(s) ==
    IF s = <<>> THEN <<>>
    ELSE IF \E i \in 1..Len(s) : s[i] = NL
         THEN LET i == CHOOSE k \in 1..Len(s) :
                          s[k] = NL /\ \A j \in 1..(k - 1) : s[j] # NL
              IN <<SubSeq(s, 1, i - 1)>> \o splitlines(SubSeq(s, i + 1, Len(s)))
         ELSE <<s>>

\* " ".join(words)
RECURSIVE JoinSpace(_)
JoinSpace(words) ==
    IF words = <<>> THEN <<>>
    ELSE IF Len(words) = 1 THEN Head(words)
    ELSE Head(words) \o <<SP>> \o JoinSpace(Tail(words))

\* "\n".join(lines)
RECURSIVE JoinNewline(_)
JoinNewline(ls) ==
    IF ls = <<>> THEN <<>>
    ELSE IF Len(ls) = 1 THEN Head(ls)
    ELSE Head(ls) \o <<NL>> \o JoinNewline(Tail(ls))

\* rejoin(words, start, stop): " ".join(words[start:stop]), 0-based as in the
\* source; stop = Len(words) stands for None.
rejoin(words, start, stop) == JoinSpace(SubSeq(words, start + 1, stop))

\* The length of the match of ^\s* on line.
RECURSIVE LeadingSpace(_)
LeadingSpace(line) ==
    IF line # <<>> /\ IsSpace(Head(line)) THEN 1 + LeadingSpace(Tail(line))
    ELSE 0

\* Mutant of split: str.split(" "), which cuts at every single space and
\* keeps the empty pieces between adjacent spaces.
RECURSIVE split_single_space(_)
split_single_space(line) ==
    IF \E i \in 1..Len(line) : line[i] = SP
    THEN LET i == CHOOSE k \in 1..Len(line) :
                     line[k] = SP /\ \A j \in 1..(k - 1) : line[j] # SP
         IN <<SubSeq(line, 1, i - 1)>>
            \o split_single_space(SubSeq(line, i + 1, Len(line)))
    ELSE <<line>>

\* str.split(): the maximal runs of non-whitespace characters.
RECURSIVE split(_)
split(line) ==
    LET n == LeadingSpace(line)
        rest == SubSeq(line, n + 1, Len(line))
    IN IF rest = <<>> THEN <<>>
       ELSE LET m == IF \E i \in 1..Len(rest) : IsSpace(rest[i])
                     THEN (CHOOSE k \in 1..Len(rest) :
                              IsSpace(rest[k])
                              /\ \A j \in 1..(k - 1) : ~IsSpace(rest[j])) - 1
                     ELSE Len(rest)
            IN <<SubSeq(rest, 1, m)>> \o split(SubSeq(rest, m + 1, Len(rest)))

\* Mutant of splitline: the line's leading whitespace is dropped with the
\* rest of its whitespace.
splitline_NoLead(line) == split(line)

\* splitline: the words of a line, the first one keeping the line's leading
\* whitespace.
splitline(line) ==
    LET words == split(line)
    IN IF words # <<>>
       THEN <<SubSeq(line, 1, LeadingSpace(line)) \o Head(words)>> \o Tail(words)
       ELSE words

\* Mutant of words_count_loop: a line takes its first word alone whenever
\* that word fits.
words_count_loop_OneWord(words, words_count, w) ==
    IF extent_func(rejoin(words, 0, 1)).w > w THEN 0 ELSE 1

\* Mutant of words_count_loop: the loop stops at one word instead of at none,
\* so the character-level branch is never taken.
RECURSIVE words_count_loop_KeepOne(_, _, _)
words_count_loop_KeepOne(words, words_count, w) ==
    IF extent_func(rejoin(words, 0, words_count)).w > w /\ words_count > 1
    THEN words_count_loop_KeepOne(words, words_count - 1, w)
    ELSE words_count

\* Mutant of words_count_loop: a candidate exactly as wide as the width is
\* taken not to fit.
RECURSIVE words_count_loop_Geq(_, _, _)
words_count_loop_Geq(words, words_count, w) ==
    IF extent_func(rejoin(words, 0, words_count)).w >= w /\ words_count > 0
    THEN words_count_loop_Geq(words, words_count - 1, w)
    ELSE words_count

\* The loop of lines 274-278: shrink the candidate's word count while it is
\* too wide.
RECURSIVE words_count_loop(_, _, _)
words_count_loop(words, words_count, w) ==
    IF extent_func(rejoin(words, 0, words_count)).w > w /\ words_count > 0
    THEN words_count_loop(words, words_count - 1, w)
    ELSE words_count

\* Mutant of letters_count_loop: a word wider than the width is cut after its
\* first character.
letters_count_loop_One(word, letters_count, w) == 1

\* Mutant of letters_count_loop: the prefix may shrink to no letter at all.
RECURSIVE letters_count_loop_ToZero(_, _, _)
letters_count_loop_ToZero(word, letters_count, w) ==
    IF extent_func(SubSeq(word, 1, letters_count)).w > w /\ letters_count > 0
    THEN letters_count_loop_ToZero(word, letters_count - 1, w)
    ELSE letters_count

\* The loop of lines 288-292: shrink the prefix of the word while it is too
\* wide and longer than one letter.
RECURSIVE letters_count_loop(_, _, _)
letters_count_loop(word, letters_count, w) ==
    IF extent_func(SubSeq(word, 1, letters_count)).w > w /\ letters_count > 1
    THEN letters_count_loop(word, letters_count - 1, w)
    ELSE letters_count

\* Mutant of WrapIteration: what remains of a line is queued behind the
\* lines still pending.
WrapIteration_Requeue(inp, out, w) ==
    LET words == splitline(Head(inp))
        rest == Tail(inp)
    IN IF words = <<>>
       THEN [inp |-> rest, out |-> Append(out, <<>>), split |-> FALSE]
       ELSE LET words_count == words_count_loop(words, Len(words), w)
            IN IF words_count > 0
               THEN [inp |-> IF words_count < Len(words)
                             THEN Append(rest, rejoin(words, words_count, Len(words)))
                             ELSE rest,
                     out |-> Append(out, rejoin(words, 0, words_count)),
                     split |-> FALSE]
               ELSE LET word == Head(words)
                        letters_count == letters_count_loop(word, Len(word), w)
                        words2 == IF letters_count < Len(word)
                                  THEN <<SubSeq(word, letters_count + 1, Len(word))>>
                                       \o Tail(words)
                                  ELSE Tail(words)
                    IN [inp |-> Append(rest, JoinSpace(words2)),
                        out |-> Append(out, SubSeq(word, 1, letters_count)),
                        split |-> TRUE]

\* One iteration of word_wrap's outer loop on a non-empty deque: the deque and
\* the output after it, and whether it split a word.
WrapIteration(inp, out, w) ==
    LET words == splitline(Head(inp))
        rest == Tail(inp)
    IN IF words = <<>>
       THEN [inp |-> rest, out |-> Append(out, <<>>), split |-> FALSE]
       ELSE LET words_count == words_count_loop(words, Len(words), w)
            IN IF words_count > 0
               THEN [inp |-> IF words_count < Len(words)
                             THEN <<rejoin(words, words_count, Len(words))>> \o rest
                             ELSE rest,
                     out |-> Append(out, rejoin(words, 0, words_count)),
                     split |-> FALSE]
               ELSE LET word == Head(words)
                        letters_count == letters_count_loop(word, Len(word), w)
                        words2 == IF letters_count < Len(word)
                                  THEN <<SubSeq(word, letters_count + 1, Len(word))>>
                                       \o Tail(words)
                                  ELSE Tail(words)
                    IN [inp |-> <<JoinSpace(words2)>> \o rest,
                        out |-> Append(out, SubSeq(word, 1, letters_count)),
                        split |-> TRUE]

\* Mutant of OrEmptyLine: the output is returned as it is.
OrEmptyLine_AsIs(out) == out

\* output_lines or [""]
OrEmptyLine(out) == IF out = <<>> THEN << <<>> >> ELSE out

\* The loop of lines 267-298 run to its end.  (The iteration's result is bound
\* through a one-element set, which TLC evaluates once.)
RECURSIVE word_wrap_loop(_, _, _)
word_wrap_loop(inp, out, w) ==
    IF inp = <<>> THEN out
    ELSE CHOOSE res \in {word_wrap_loop(r.inp, r.out, w) :
                             r \in {WrapIteration(inp, out, w)}} : TRUE

\* word_wrap as a function: the lines of text wrapped to width w.
word_wrap(t, w) == OrEmptyLine(word_wrap_loop(splitlines(t), <<>>, w))

\* ---------------------------------------------------------- label layout

\* decorations.icon_size and decorations.icon_padding.
icon_size == 20 * PX
icon_padding == 2 * PX

Ellipsis == <<DOT, DOT, DOT>>

NoHBounded == [lines |-> <<>>, label_margin |-> 0, max_text_width |-> 0]
NoVBounded == [lines_to_render |-> <<>>, text_height |-> 0, overflow |-> <<>>,
               stopped |-> FALSE]
NoLinesData == [lines |-> <<>>, line_height |-> 0, text_height |-> 0,
                margin |-> 0, max_line_width |-> 0]

Max(a, b) == IF a > b THEN a ELSE b

\* max(w for w, _ in map(extent_func, lines)), for a non-empty lines.
RECURSIVE MaxWidth(_)
MaxWidth(ls) ==
    IF Len(ls) = 1 THEN extent_func(Head(ls)).w
    ELSE Max(extent_func(Head(ls)).w, MaxWidth(Tail(ls)))

\* max(j for _, j in map(extent_func, lines)), for a non-empty lines.
RECURSIVE MaxHeight(_)
MaxHeight(ls) ==
    IF Len(ls) = 1 THEN extent_func(Head(ls)).h
    ELSE Max(extent_func(Head(ls)).h, MaxHeight(Tail(ls)))

\* math.floor of a length, to whole pixels.
Floor(v) == (v \div PX) * PX

\* Mutant of MaxTextWidth: a negative width is clamped to zero.
MaxTextWidth_Clamped(w, pad, size) == Max(w - (size + 2 * pad), 0)

\* check_for_horizontal_overflow, line 28.
MaxTextWidth(w, pad, size) == w - (size + 2 * pad)

\* Mutant of check_for_horizontal_overflow: the assertions are not made.
check_for_horizontal_overflow_NoAssert(ls, w, pad, size) ==
    [ok |-> TRUE,
     val |-> [lines |-> ls,
              label_margin |-> (w - (MaxWidth(ls) + size + 2 * pad)) \div 2,
              max_text_width |-> MaxTextWidth(w, pad, size)]]

\* check_for_horizontal_overflow, lines 31-36, on the wrapped lines: the
\* returned triple, or the assertion that fails.
check_for_horizontal_overflow(ls, w, pad, size) ==
    LET max_text_width == MaxTextWidth(w, pad, size)
        text_width == MaxWidth(ls)
        label_width == text_width + size + 2 * pad
    IN IF text_width <= max_text_width /\ label_width <= w
       THEN [ok |-> TRUE,
             val |-> [lines |-> ls,
                      label_margin |-> (w - label_width) \div 2,
                      max_text_width |-> max_text_width]]
       ELSE [ok |-> FALSE, val |-> NoHBounded]

\* Mutant of vertical_loop: the overflow candidate is the line that does
\* not fit.
RECURSIVE vertical_loop_Triggering(_, _, _, _, _)
vertical_loop_Triggering(ls, i, text_height, lines_to_render, height) ==
    IF i > Len(ls)
    THEN [lines_to_render |-> lines_to_render, text_height |-> text_height,
          overflow |-> <<>>, stopped |-> FALSE]
    ELSE LET line_height == extent_func(ls[i]).h
         IN IF text_height + line_height > height
            THEN [lines_to_render |-> lines_to_render,
                  text_height |-> text_height,
                  overflow |-> ls[i],
                  stopped |-> TRUE]
            ELSE vertical_loop_Triggering(ls, i + 1, text_height + line_height,
                               Append(lines_to_render, ls[i]), height)

\* The loop of check_for_vertical_overflow, lines 44-55, from (1-based) line i
\* on: the accepted lines, their summed heights, the overflow candidate and
\* whether the loop stopped at a line that does not fit.
RECURSIVE vertical_loop(_, _, _, _, _)
vertical_loop(ls, i, text_height, lines_to_render, height) ==
    IF i > Len(ls)
    THEN [lines_to_render |-> lines_to_render, text_height |-> text_height,
          overflow |-> <<>>, stopped |-> FALSE]
    ELSE LET line_height == extent_func(ls[i]).h
         IN IF text_height + line_height > height
            THEN [lines_to_render |-> lines_to_render,
                  text_height |-> text_height,
                  overflow |-> IF i > 1 THEN ls[i - 1] ELSE ls[i],
                  stopped |-> TRUE]
            ELSE vertical_loop(ls, i + 1, text_height + line_height,
                               Append(lines_to_render, ls[i]), height)

\* Lines 58-66: the overflow candidate with its ellipsis.
Ellipsize(overflow, max_text_width) ==
    IF extent_func(overflow \o Ellipsis).w < max_text_width
    THEN overflow \o Ellipsis
    ELSE LET dot_width == extent_func(Ellipsis).w
             new_lines == word_wrap(overflow, Floor(max_text_width - dot_width))
         IN new_lines[1] \o Ellipsis

\* Mutant of ReplaceLast: the candidate only ever replaces an accepted line.
ReplaceLast_OnlyReplace(lines_to_render, overflow, max_text_width) ==
    IF overflow # <<>> /\ lines_to_render # <<>>
    THEN [lines_to_render EXCEPT ![Len(lines_to_render)] =
              Ellipsize(overflow, max_text_width)]
    ELSE lines_to_render

\* Lines 57-71: "if overflow:" is the truth value of the candidate string.
ReplaceLast(lines_to_render, overflow, max_text_width) ==
    IF overflow # <<>>
    THEN IF lines_to_render # <<>>
         THEN [lines_to_render EXCEPT ![Len(lines_to_render)] =
                   Ellipsize(overflow, max_text_width)]
         ELSE <<Ellipsize(overflow, max_text_width)>>
    ELSE lines_to_render

\* check_for_vertical_overflow: its locals at line 73 (ok: the assertion there).
check_for_vertical_overflow(ls, height, max_text_width) ==
    LET r == vertical_loop(ls, 1, 0, <<>>, height)
    IN [ok |-> height >= r.text_height,
        val |-> [r EXCEPT !.lines_to_render =
                     ReplaceLast(r.lines_to_render, r.overflow, max_text_width)]]

\* Mutant of LinesData: the text height counts the wrapped lines instead of
\* the lines to render.
LinesData_AllLines(lines_to_render, label_margin, max_text_width) ==
    LET line_height == MaxHeight(lines_to_render)
    IN [ok |-> max_text_width >= MaxWidth(lines_to_render),
        val |-> [lines |-> lines_to_render,
                 line_height |-> line_height,
                 text_height |-> line_height * Len(hbounded.lines),
                 margin |-> label_margin,
                 max_line_width |-> MaxWidth(lines_to_render)]]

\* render_hbounded_lines, lines 903-911, for a non-empty lines_to_render.
LinesData(lines_to_render, label_margin, max_text_width) ==
    LET line_height == MaxHeight(lines_to_render)
    IN [ok |-> max_text_width >= MaxWidth(lines_to_render),
        val |-> [lines |-> lines_to_render,
                 line_height |-> line_height,
                 text_height |-> line_height * Len(lines_to_render),
                 margin |-> label_margin,
                 max_line_width |-> MaxWidth(lines_to_render)]]

\* Mutant of get_label_position_x: the text is moved right by the icon's
\* size and both of its paddings.
get_label_position_x_BothPaddings(lbl, anchor, ld, icon) ==
    LET isz == IF icon THEN icon_size + 2 * icon_padding ELSE 0
        sh_icon_size == IF icon THEN icon_size + icon_padding \div 2 ELSE 0
    IN IF anchor = "start"
       THEN LET x == lbl.x + ld.margin + isz
            IN [x |-> x, icon_x |-> x - sh_icon_size]
       ELSE LET x == lbl.x + (lbl.width + isz) \div 2
            IN [x |-> x, icon_x |-> x - (ld.max_line_width \div 2 + sh_icon_size)]

\* Mutant of get_label_position_x: for anchor middle the text is centred in
\* the box whether or not an icon is rendered.
get_label_position_x_Centred(lbl, anchor, ld, icon) ==
    LET isz == IF icon THEN icon_size + icon_padding ELSE 0
        sh_icon_size == IF icon THEN icon_size + icon_padding \div 2 ELSE 0
    IN IF anchor = "start"
       THEN LET x == lbl.x + ld.margin + isz
            IN [x |-> x, icon_x |-> x - sh_icon_size]
       ELSE LET x == lbl.x + lbl.width \div 2
            IN [x |-> x, icon_x |-> x - (ld.max_line_width \div 2 + sh_icon_size)]

\* get_label_position_x: (x, icon_x).
get_label_position_x(lbl, anchor, ld, icon) ==
    LET isz == IF icon THEN icon_size + icon_padding ELSE 0
        sh_icon_size == IF icon THEN icon_size + icon_padding \div 2 ELSE 0
    IN IF anchor = "start"
       THEN LET x == lbl.x + ld.margin + isz
            IN [x |-> x, icon_x |-> x - sh_icon_size]
       ELSE LET x == lbl.x + (lbl.width + isz) \div 2
            IN [x |-> x, icon_x |-> x - (ld.max_line_width \div 2 + sh_icon_size)]

\* ---------------------------------------------------------- label drawing

\* A transform string is a sequence of tokens: "rotate(", numbers, ",", " "
\* and ")".  The strings NUMBER matches among them (no one is a prefix of
\* another, so a token is replaced exactly where its characters are).
Numbers == {"-90", "-90.0", "90", "45", "10", "20", "30"}

IsNumber(tok) == tok \in Numbers

\* float(tok), in pixels.
NumberValue(tok) ==
    CASE tok = "-90" -> 0 - 90
      [] tok = "-90.0" -> 0 - 90
      [] tok = "90" -> 90
      [] tok = "45" -> 45
      [] tok = "10" -> 10
      [] tok = "20" -> 20
      [] tok = "30" -> 30

\* "rotate(a, x, y) t": the form RE_ROTATION is written for.
RotateTspan(a, x, y, t) ==
    <<"rotate(", a, ",", SP, x, ",", SP, y, ")", SP, t>>

\* "rotate(a, x, y)", "rotate(a x y)" and "rotate(a)".
RotateCommas(a, x, y) == <<"rotate(", a, ",", SP, x, ",", SP, y, ")">>
RotateBlanks(a, x, y) == <<"rotate(", a, SP, x, SP, y, ")">>
RotateAngle(a) == <<"rotate(", a, ")">>

\* The values of labelstyle.transform: none, rotations by several angles in
\* each form, and a transform that is no rotation.
Transforms ==
    {<<>>, <<"translate(", "10", ",", "20", ")">>}
    \cup {RotateTspan(a, "10", "20", t) :
              a \in {"-90", "-90.0", "90", "45"}, t \in {"20", "30"}}
    \cup {RotateCommas(a, "10", "20") : a \in {"-90", "45"}}
    \cup {RotateBlanks(a, "10", "20") : a \in {"-90", "45"}}
    \cup {RotateAngle(a) : a \in {"-90", "45"}}

\* The token at position i, or "" past the end.
TokenAt(tr, i) == IF i \in 1..Len(tr) THEN tr[i] ELSE ""

\* \s*: the position after the blanks from position i on.
RECURSIVE SkipSpaces(_, _)
SkipSpaces(tr, i) == IF TokenAt(tr, i) = SP THEN SkipSpaces(tr, i + 1) ELSE i

\* RE_ROTATION matches at position i.
MatchAt(tr, i) ==
    LET j == SkipSpaces(tr, i + 3)
        k == SkipSpaces(tr, j + 2)
    IN /\ TokenAt(tr, i) = "rotate("
       /\ IsNumber(TokenAt(tr, i + 1))
       /\ TokenAt(tr, i + 2) = ","
       /\ IsNumber(TokenAt(tr, j))
       /\ TokenAt(tr, j + 1) = ","
       /\ IsNumber(TokenAt(tr, k))
       /\ TokenAt(tr, k + 1) = ")"
       /\ TokenAt(tr, k + 2) = SP
       /\ IsNumber(TokenAt(tr, k + 3))

\* re.search(RE_ROTATION, tr): the groups of the leftmost match, if any.
RE_ROTATION(tr) ==
    IF \E i \in 1..Len(tr) : MatchAt(tr, i)
    THEN LET i == CHOOSE n \in 1..Len(tr) :
                      MatchAt(tr, n) /\ \A m \in 1..(n - 1) : ~MatchAt(tr, m)
             j == SkipSpaces(tr, i + 3)
             k == SkipSpaces(tr, j + 2)
         IN [found |-> TRUE, angle |-> tr[i + 1], x |-> tr[j], y |-> tr[k],
             tspan_y |-> tr[k + 3]]
    ELSE [found |-> FALSE, angle |-> "", x |-> "", y |-> "", tspan_y |-> ""]

\* tr.replace(" " + tok, "")
RECURSIVE replace(_, _)
replace(tr, tok) ==
    IF Len(tr) < 2 THEN tr
    ELSE IF tr[1] = SP /\ tr[2] = tok THEN replace(SubSeq(tr, 3, Len(tr)), tok)
    ELSE <<tr[1]>> \o replace(Tail(tr), tok)

\* No text element has been added to the label's group.
NoTextElement == [added |-> FALSE, transform |-> <<>>, tspans |-> <<>>]

\* _draw_label from its transform check to the end of its rotated branch
\* (drawing.py 295-329): where it goes on and the text element it has added.
\* Without a match x and y are unbound at line 324, after the text element
\* has been added to the group at line 315.
draw_label(tr, txt) ==
    LET match == RE_ROTATION(tr)
    IN IF tr = <<>>
       THEN [pc |-> "label",
             text_element |-> [NoTextElement EXCEPT !.added = TRUE]]
       ELSE IF match.found /\ match.angle # "-90"
       THEN [pc |-> "NotImplementedError", text_element |-> NoTextElement]
       ELSE IF match.found
       THEN [pc |-> "rotated",
             text_element |->
                 [added |-> TRUE,
                  transform |-> replace(tr, match.tspan_y),
                  tspans |-> << [x |-> NumberValue(match.x) * PX,
                                 y |-> NumberValue(match.tspan_y) * PX,
                                 text |-> txt] >>]]
       ELSE [pc |-> "UnboundLocalError",
             text_element |-> [added |-> TRUE, transform |-> tr,
                                tspans |-> <<>>]]

\* -------------------------------------------------- measurement caches

\* maxsize of the lru_cache of extent_func and of load_font.
extent_maxsize == 256
font_maxsize == 8

\* Distinct keys of the measurement workload (more than extent_maxsize).
NKeys == 260

\* Font-file loads after which the font-loading workload stops.
MaxFallbackLoads == 5

FALLBACK_FONT == "OpenSans-Regular.ttf"

\* The font files ImageFont.truetype finds by name.
Installed == {"segoeui.ttf"}

\* The font families and sizes of the workloads: a family found as given, one
\* found in lower case only, one not found at all; more (family, size) pairs
\* than font_maxsize.
FontTypes == <<"segoeui.ttf", "SEGOEUI.TTF", "missing.ttf">>
FontSizes == <<8, 16, 24>>
NFonts == Len(FontTypes) * Len(FontSizes)

FontAt(i) ==
    [fonttype |-> FontTypes[((i - 1) % Len(FontTypes)) + 1],
     size |-> FontSizes[((i - 1) \div Len(FontTypes)) + 1]]

\* The n-th key of the measurement workload: every font with each text.
KeyAt(n) ==
    [text |-> [i \in 1..((n - 1) \div NFonts) |-> "a"],
     fonttype |-> FontAt(((n - 1) % NFonts) + 1).fonttype,
     size |-> FontAt(((n - 1) % NFonts) + 1).size]

\* str.upper() and str.lower() on the font families.
upper(name) ==
    CASE name = "segoeui.ttf" -> "SEGOEUI.TTF"
      [] name = "missing.ttf" -> "MISSING.TTF"
      [] OTHER -> name

lower(name) ==
    CASE name = "SEGOEUI.TTF" -> "segoeui.ttf"
      [] OTHER -> name

\* The body of load_font: the font object, and whether the fallback font file
\* was opened for it.
load_font_uncached(fonttype, size) ==
    IF fonttype \in Installed
    THEN [font |-> [file |-> fonttype, size |-> size], fallback |-> FALSE]
    ELSE IF upper(fonttype) \in Installed
    THEN [font |-> [file |-> upper(fonttype), size |-> size], fallback |-> FALSE]
    ELSE IF lower(fonttype) \in Installed
    THEN [font |-> [file |-> lower(fonttype), size |-> size], fallback |-> FALSE]
    ELSE [font |-> [file |-> FALLBACK_FONT, size |-> size], fallback |-> TRUE]

\* font.font.getsize(s): the glyph metrics are those of size 8 scaled with the
\* font's size; the fallback font's glyphs are one pixel wider at size 8.
getsize(font, s) ==
    [w |-> (getsize_width(s)
            + (IF font.file = FALLBACK_FONT THEN Len(s) ELSE 0))
           * (font.size \div 8),
     h |-> getsize_height(s) * (font.size \div 8)]

\* The body of extent_func on the font load_font returns.
extent_of(font, s) == [w |-> getsize(font, s).w * 20, h |-> getsize(font, s).h * 20]

\* extent_func without either cache.
extent_func_uncached(s, fonttype, size) ==
    extent_of(load_font_uncached(fonttype, size).font, s)

\* functools.lru_cache: the position of key in the cache, or 0.
lru_index(cache, key) ==
    IF \E i \in 1..Len(cache) : cache[i].key = key
    THEN CHOOSE i \in 1..Len(cache) : cache[i].key = key
    ELSE 0

\* A hit makes the entry the most recently used.
lru_hit(cache, i) ==
    SubSeq(cache, 1, i - 1) \o SubSeq(cache, i + 1, Len(cache)) \o <<cache[i]>>

\* A miss stores the new entry, evicting the least recently used one from a
\* full cache.
lru_put(cache, key, val, maxsize) ==
    LET c == Append(cache, [key |-> key, val |-> val])
    IN IF Len(c) > maxsize THEN Tail(c) ELSE c

\* Mutant of FontKey: the size is no part of the key.
FontKey_NoSize(fonttype, size) == [fonttype |-> fonttype, size |-> 0]

\* The key of load_font's cache: its arguments.
FontKey(fonttype, size) == [fonttype |-> fonttype, size |-> size]

\* Mutant of ExtentKey: the size is no part of the key.
ExtentKey_NoSize(s, fonttype, size) ==
    [text |-> s, fonttype |-> fonttype, size |-> 0]

\* The key of extent_func's cache: its arguments.
ExtentKey(s, fonttype, size) == [text |-> s, fonttype |-> fonttype, size |-> size]

\* load_font behind its cache fc: the cache after the call, the font, whether
\* the cache answered, whether the fallback font file was opened.
load_font(fc, fonttype, size) ==
    LET i == lru_index(fc, FontKey(fonttype, size))
        r == load_font_uncached(fonttype, size)
    IN IF i > 0
       THEN [cache |-> lru_hit(fc, i), font |-> fc[i].val, hit |-> TRUE,
             loaded |-> FALSE]
       ELSE [cache |-> lru_put(fc, FontKey(fonttype, size), r.font, font_maxsize),
             font |-> r.font, hit |-> FALSE, loaded |-> r.fallback]

\* extent_func behind its cache ec, over load_font's cache fc.
extent_func_cached(ec, fc, s, fonttype, size) ==
    LET i == lru_index(ec, ExtentKey(s, fonttype, size))
        f == load_font(fc, fonttype, size)
    IN IF i > 0
       THEN [extent_cache |-> lru_hit(ec, i), font_cache |-> fc,
             result |-> ec[i].val, hit |-> TRUE, loaded |-> FALSE]
       ELSE [extent_cache |-> lru_put(ec, ExtentKey(s, fonttype, size),
                                      extent_of(f.font, s), extent_maxsize),
             font_cache |-> f.cache,
             result |-> extent_of(f.font, s), hit |-> FALSE,
             loaded |-> f.loaded]

\* No call of extent_func or load_font has been made.
NoCall == [fn |-> "none", text |-> <<>>, fonttype |-> "", size |-> 0,
           result |-> [w |-> 0, h |-> 0], hit |-> FALSE, loaded |-> FALSE]

\* ------------------------------------------------------------- ssvparse

\* Longest string given to ssvparse, in characters.
MaxSsvLen == 4

\* The characters of these strings, the parentheses (the default among them)
\* and the values of num.
SsvAlphabet == {"1", "2", ",", "(", ")"}
SsvStrings == UNION {[1..n -> SsvAlphabet] : n \in 0..MaxSsvLen}
SsvParens == {<< <<>>, <<>> >>, << <<"(">>, <<")">> >>, << <<"(">>, <<>> >>}
SsvNums == {0, 2}

startswith(s, p) == Len(p) <= Len(s) /\ SubSeq(s, 1, Len(p)) = p

endswith(s, p) == Len(p) <= Len(s) /\ SubSeq(s, Len(s) - Len(p) + 1, Len(s)) = p

\* s[start:stop] for start >= 0: a negative stop counts from the end, and -0
\* is 0.
slice(s, start, stop) ==
    SubSeq(s, start + 1, IF stop < 0 THEN Len(s) + stop ELSE stop)

\* string[len(parens[0]) : -len(parens[1])]
strip_parens(s, parens) == slice(s, Len(parens[1]), 0 - Len(parens[2]))

\* str.split(sep) for the one-character separator sep: the pieces between
\* the separators, empty ones included.
RECURSIVE split_sep(_, _)
split_sep(s, sep) ==
    IF \E i \in 1..Len(s) : s[i] = sep
    THEN LET i == CHOOSE k \in 1..Len(s) :
                     s[k] = sep /\ \A j \in 1..(k - 1) : s[j] # sep
         IN <<SubSeq(s, 1, i - 1)>> \o split_sep(SubSeq(s, i + 1, Len(s)), sep)
    ELSE <<s>>

\* int(v) accepts v: a non-empty string of digits.
IsInt(v) == v # <<>> /\ \A i \in 1..Len(v) : v[i] \in {"1", "2"}

\* int(v)
RECURSIVE IntOf(_)
IntOf(v) ==
    IF v = <<>> THEN 0
    ELSE 10 * IntOf(SubSeq(v, 1, Len(v) - 1))
         + (IF v[Len(v)] = "1" THEN 1 ELSE 2)

\* cast(v) for cast str and cast int (whose ValueError is castable = FALSE).
Castable(cast, v) == cast = "str" \/ IsInt(v)

CastOf(cast, v) == IF cast = "str" THEN v ELSE IntOf(v)

\* ssvparse(string, cast, parens=parens, sep=",", num=num): what it returns,
\* or the ValueError it raises.
ssvparse(string, cast, parens, num) ==
    IF ~startswith(string, parens[1]) \/ ~endswith(string, parens[2])
    THEN [outcome |-> "ValueError", values |-> <<>>]
    ELSE LET vs == split_sep(strip_parens(string, parens), ",")
         IN IF \E i \in 1..Len(vs) : ~Castable(cast, vs[i])
            THEN [outcome |-> "ValueError", values |-> <<>>]
            ELSE IF num # 0 /\ Len(vs) # num
            THEN [outcome |-> "ValueError", values |-> <<>>]
            ELSE [outcome |-> "return",
                  values |-> [i \in 1..Len(vs) |-> CastOf(cast, vs[i])]]

\* ssvparse has not been called.
NoSsv == [string |-> <<>>, cast |-> "str", parens |-> << <<>>, <<>> >>,
          num |-> 0, outcome |-> "none", values |-> <<>>]

\* ---------------------------------------------------------------- drawing

\* decorations.deco_factories: the registered symbols (a name stands for the
\* key name + "Symbol") and the dependencies of their factories, acyclic.
DecoNames ==
    {"Error", "Port", "ComponentPort", "Requirement", "LogicalComponent",
     "StickFigure", "LogicalHumanActor", "LogicalHumanComponent"}

dependencies(name) ==
    CASE name = "LogicalHumanActor" -> <<"StickFigure">>
      [] name = "LogicalHumanComponent" -> <<"LogicalHumanActor", "StickFigure">>
      [] OTHER -> <<>>

\* The class lists of decorations that the draw functions read.
function_ports == {"FIP", "FOP"}
component_ports == {"CP_IN", "CP_OUT", "CP_INOUT"}
all_directed_ports == {"FIP", "FOP", "CP_IN", "CP_OUT"}
all_ports == function_ports \cup component_ports
only_icons == {"Requirement"}

\* Mutant of add_decofactory: the definition is added, its dependencies are
\* not, and the name is not entered in deco_cache.
add_decofactory_Uncached(name, d, c) == [defs |-> Append(d, name), deco_cache |-> c]

\* _add_decofactory(name) on defs d and deco_cache c: the definition is added,
\* then every dependency not in deco_cache is added in turn (add_dependencies,
\* the loop of lines 854-856), then the name is entered in deco_cache.
RECURSIVE add_decofactory(_, _, _)
RECURSIVE add_dependencies(_, _, _, _)
add_decofactory(name, d, c) ==
    LET after == CHOOSE res \in {add_dependencies(dependencies(name), 1,
                                                  Append(d, name), c)} : TRUE
    IN [defs |-> after.defs, deco_cache |-> after.deco_cache \cup {name}]

add_dependencies(deps, i, d, c) ==
    IF i > Len(deps) THEN [defs |-> d, deco_cache |-> c]
    ELSE IF deps[i] \notin c
    THEN CHOOSE res \in {add_dependencies(deps, i + 1, r.defs, r.deco_cache) :
                             r \in {add_decofactory(deps[i], d, c)}} : TRUE
    ELSE add_dependencies(deps, i + 1, d, c)

\* add_label_image as far as defs and deco_cache go (lines 353-354).
add_label_image(class_, d, c) ==
    IF class_ \notin c THEN add_decofactory(class_, d, c)
    ELSE [defs |-> d, deco_cache |-> c]

\* The rest of render_hbounded_lines after check_for_horizontal_overflow has
\* returned hb: what it raises, "none" when it returns.
render_hbounded_lines_rest(hb, h) ==
    LET vb == CHOOSE res \in {check_for_vertical_overflow(
                                  hb.lines, h, hb.max_text_width)} : TRUE
    IN IF ~vb.ok THEN "AssertionError"
       ELSE IF vb.val.lines_to_render = <<>> THEN "ValueError"
       ELSE IF LinesData(vb.val.lines_to_render, hb.label_margin,
                         hb.max_text_width).ok
       THEN "none"
       ELSE "AssertionError"

\* render_hbounded_lines for a label of the given text and box: what it
\* raises, "none" when it returns.
render_hbounded_lines(txt, w, h, icon) ==
    LET pad == IF icon THEN icon_padding ELSE 0
        size == IF icon THEN icon_size ELSE 0
        max_text_width == MaxTextWidth(w, pad, size)
    IN IF max_text_width < 0 THEN "AssertionError"
       ELSE LET hb == CHOOSE res \in {check_for_horizontal_overflow(
                                          word_wrap(txt, max_text_width), w,
                                          pad, size)} : TRUE
            IN IF ~hb.ok THEN "AssertionError"
               ELSE render_hbounded_lines_rest(hb.val, h)

\* _draw_label for a label with labelstyle.transform tr, up to its last
\* step: what it raises, "none" when nothing.
label_raises(lb, tr, icon_rendered) ==
    LET first == draw_label(tr, lb.text).pc
    IN IF first = "rotated" THEN "none"
       ELSE IF first = "label"
       THEN render_hbounded_lines(lb.text, lb.width, lb.height, icon_rendered)
       ELSE first

\* The arguments label_raises is given for a label.
LabelArgs(lb, tr, icon_rendered) ==
    [label |-> lb, transform |-> tr, icon |-> icon_rendered]

\* _draw_label for a LabelBuilder with the given label, labelstyle.transform
\* tr, class and icon flag, where raises[LabelArgs(..)] is what label_raises
\* gives: what it raises, defs and deco_cache after it (add_label_image is
\* reached at the very end, line 341, and without a transform only), and
\* labelstyle.transform after it (deleted at line 309 unless the angle was
\* rejected).
label_effect(raises, lb, tr, class_, icon, d, c) ==
    LET icon_rendered == icon /\ class_ \in DecoNames
        raised == raises[LabelArgs(lb, tr, icon_rendered)]
    IN [raised |-> raised,
        transform |-> IF raised = "NotImplementedError" THEN tr ELSE <<>>]
       @@ (IF tr = <<>> /\ raised = "none" /\ icon_rendered
           THEN add_label_image(class_, d, c)
           ELSE [defs |-> d, deco_cache |-> c])

\* No label.
NoLabel == [text |-> <<>>, width |-> 0 - 1, height |-> 0 - 1]

\* The group of an object among the drawing's elements.
Group(id, class_) == [id |-> id, class |-> class_]

\* The backdrop rectangle that Drawing.__init__ adds.
Backdrop == Group("", "backdrop")

\* What a draw function has done that returned or raised after effect e,
\* having added its group to the drawing or not.
drawn_with(e, els) ==
    [raised |-> e.raised, defs |-> e.defs, deco_cache |-> e.deco_cache,
     elements |-> els]

\* Nothing raised, defs d and deco_cache c.
returned(tr, d, c) ==
    [raised |-> "none", transform |-> tr, defs |-> d, deco_cache |-> c]

\* _draw_box with add_rect (no description, no features): the main label is
\* drawn into the group, or the icon of an only_icons class is added, before
\* the group is added to the drawing.
draw_box(raises, id, class_, lb, tr, d, c, els) ==
    CHOOSE res \in
        {drawn_with(e, IF e.raised = "none" THEN Append(els, Group(id, class_))
                       ELSE els) :
            e \in {IF lb # NoLabel THEN label_effect(raises, lb, tr, class_, TRUE, d, c)
                   ELSE IF class_ \in only_icons
                   THEN [raised |-> "none", transform |-> tr]
                        @@ add_label_image(class_, d, c)
                   ELSE returned(tr, d, c)}} : TRUE

\* The label of an edge of a class with a symbol (lines 776-781).
Wide(lb) ==
    LET additional_space == icon_size + 2 * icon_padding
    IN [lb EXCEPT !.width = @ + additional_space + 2 * PX]

\* _draw_edge with at most one label: _draw_edge_label widens the label of a
\* class with a symbol and draws it into the group before the group is added.
draw_edge(raises, id, class_, lb, tr, d, c, els) ==
    LET wide == IF class_ \in DecoNames THEN Wide(lb) ELSE lb
    IN CHOOSE res \in
           {drawn_with(e, IF e.raised = "none"
                          THEN Append(els, Group(id, class_)) ELSE els) :
               e \in {IF lb # NoLabel
                      THEN label_effect(raises, wide, tr, class_, TRUE, d, c)
                      ELSE returned(tr, d, c)}} : TRUE

\* _draw_circle.
draw_circle(id, class_, d, c, els) ==
    [raised |-> "none", defs |-> d, deco_cache |-> c,
     elements |-> Append(els, Group(id, class_))]

\* add_port: the port symbol of a directed port, and the label drawn into the
\* group.
add_port(raises, class_, lb, tr, d, c) ==
    LET port_id == IF class_ \in function_ports THEN "Port"
                   ELSE IF class_ \in component_ports THEN "ComponentPort"
                   ELSE "Error"
    IN CHOOSE res \in
           {IF lb # NoLabel
            THEN label_effect(raises, lb, tr, "Annotation", FALSE, deco.defs,
                              deco.deco_cache)
            ELSE returned(tr, deco.defs, deco.deco_cache) :
               deco \in {IF class_ \in all_directed_ports /\ port_id \notin c
                         THEN add_decofactory(port_id, d, c)
                         ELSE [defs |-> d, deco_cache |-> c]}} : TRUE

\* The rest of _draw_symbol once it has its group grp: the group is added to
\* the drawing and then the label is drawn into it.
draw_symbol_label(raises, grp, id, class_, lb, els) ==
    IF grp.raised # "none" THEN drawn_with(grp, els)
    ELSE CHOOSE res \in
             {drawn_with(e, Append(els, Group(id, class_))) :
                 e \in {IF lb # NoLabel
                        THEN label_effect(raises, lb, grp.transform, class_, FALSE,
                                          grp.defs, grp.deco_cache)
                        ELSE grp}} : TRUE

\* _draw_symbol: the symbol of the class is added first; the group of a port
\* comes from add_port.
draw_symbol(raises, id, class_, lb, tr, d, c, els) ==
    CHOOSE res \in
        {draw_symbol_label(raises, grp, id, class_, lb, els) :
            grp \in {IF class_ \in all_ports
                     THEN add_port(raises, class_, lb, tr, d, c)
                     ELSE IF class_ \notin c
                     THEN [raised |-> "none", transform |-> tr]
                          @@ add_decofactory(class_, d, c)
                     ELSE returned(tr, d, c)}} : TRUE

\* _draw_box_symbol: _draw_box without label adds the group, then the label
\* is drawn into it.
draw_box_symbol(raises, id, class_, lb, tr, d, c, els) ==
    CHOOSE res \in
        {drawn_with(label_effect(raises, lb, tr, class_, FALSE, box.defs,
                                 box.deco_cache), box.elements) :
            box \in {draw_box(raises, id, class_, NoLabel, tr, d, c, els)}} : TRUE

\* The object types draw_object maps to a draw function.
type_mapping == {"box", "edge", "circle", "symbol", "box_symbol"}

\* draw_object(obj) on the drawing dr, where raises is what label_raises gives
\* for the object's labels: the object is entered in obj_cache (line 501)
\* before its draw function runs (line 503).  The objects' styles
\* hold no gradient and no marker, so _deploy_defs adds nothing.
draw_object(obj, dr, raises) ==
    IF obj.type \notin type_mapping
    THEN [dr EXCEPT !.raised = "ValueError"]
    ELSE LET mobj == [type |-> IF obj.class \in all_ports THEN "box" ELSE obj.type,
                      class |-> obj.class]
             cache == [k \in DOMAIN dr.obj_cache \cup {obj.id} |->
                          IF k = obj.id THEN mobj ELSE dr.obj_cache[k]]
             tr == obj.text_transform
         IN CHOOSE res \in
                {[raised |-> r.raised, defs |-> r.defs,
                  deco_cache |-> r.deco_cache, elements |-> r.elements,
                  obj_cache |-> cache] :
                    r \in {CASE obj.type = "box" ->
                                   draw_box(raises, obj.id, obj.class, obj.label, tr,
                                            dr.defs, dr.deco_cache, dr.elements)
                             [] obj.type = "edge" ->
                                   draw_edge(raises, obj.id, obj.class, obj.label, tr,
                                             dr.defs, dr.deco_cache, dr.elements)
                             [] obj.type = "circle" ->
                                   draw_circle(obj.id, obj.class, dr.defs,
                                               dr.deco_cache, dr.elements)
                             [] obj.type = "symbol" ->
                                   draw_symbol(raises, obj.id, obj.class, obj.label, tr,
                                               dr.defs, dr.deco_cache,
                                               dr.elements)
                             [] obj.type = "box_symbol" ->
                                   draw_box_symbol(raises, obj.id, obj.class, obj.label,
                                                   tr, dr.defs, dr.deco_cache,
                                                   dr.elements)}} : TRUE

\* The objects drawn: their ids, classes, labels and text_transform styles.
Ids == {"a", "b"}
Classes == {"LogicalHumanComponent", "Requirement", "FIP", "Note"}
Labels ==
    {[text |-> Hi, width |-> 100 * PX, height |-> 20 * PX],
     [text |-> Hi, width |-> 20 * PX, height |-> 20 * PX]}
TextTransforms ==
    {<<>>, RotateTspan("-90", "10", "20", "30"),
     RotateTspan("45", "10", "20", "30"), RotateAngle("-90")}

\* The objects of the given type, classes, ids and labels: one with a label has
\* any of the text_transform styles, one without has none.
Objects(type, classes, ids, labels) ==
    {[type |-> type, class |-> cl, id |-> id, label |-> lb, text_transform |-> tr] :
        cl \in classes, id \in ids, lb \in labels \ {NoLabel},
        tr \in TextTransforms}
    \cup {[type |-> type, class |-> cl, id |-> id, label |-> lb,
           text_transform |-> <<>>] :
             cl \in classes, id \in ids, lb \in labels \cap {NoLabel}}

NoDraw == [type |-> "", class |-> "", id |-> "", raised |-> "none"]

InitDrawing ==
    /\ defs = <<>>
    /\ deco_cache = {}
    /\ elements = <<Backdrop>>
    /\ obj_cache = <<>>
    /\ drawn = NoDraw

\* ----------------------------------------------------------------- styles

\* A dict is a function; its items come in the order the tables are written
\* in: element keys in the order of StyleKeys, attributes in that of
\* StyleAttrs.
StyleKeys == <<"Box", "Box.Note", "Edge">>
StyleAttrs == <<"fill", "stroke">>

EmptyDict == [k \in {} |-> ""]

\* dict[key] = value and del dict[key].
dict_set(dict, key, value) ==
    [k \in DOMAIN dict \cup {key} |-> IF k = key THEN value ELSE dict[k]]

dict_del(dict, key) == [k \in DOMAIN dict \ {key} |-> dict[k]]

\* list(dict.items()): the keys of dict in the given order.
RECURSIVE items(_, _)
items(dict, order) ==
    IF order = <<>> THEN <<>>
    ELSE IF Head(order) \in DOMAIN dict
    THEN <<Head(order)>> \o items(dict, Tail(order))
    ELSE items(dict, Tail(order))

\* The special object deep_update_dict.delete.
delete == "deep_update_dict.delete"

\* deep_update_dict on a dict of plain values (lines 549-555), for the keys
\* of updates still to come: the dict after it, or KeyError from
\* "del target[key]" with the dict as updated until then.
RECURSIVE update_attrs(_, _, _)
update_attrs(target, updates, keys) ==
    IF keys = <<>> THEN [raised |-> FALSE, dict |-> target]
    ELSE LET key == Head(keys)
             value == updates[key]
         IN IF value = delete
            THEN IF key \in DOMAIN target
                 THEN update_attrs(dict_del(target, key), updates, Tail(keys))
                 ELSE [raised |-> TRUE, dict |-> target]
            ELSE update_attrs(dict_set(target, key, value), updates, Tail(keys))

\* The dict objects of the heap: the nested dicts of STYLES["__GLOBAL__"],
\* and the dicts created by "target.get(key, {})" for the stylesheet.
GlobalRef(key) == <<"__GLOBAL__", key>>
SheetRef(key) == <<"sheet", key>>

\* deep_update_dict(target, updates) where the values of updates are dicts
\* (line 552-553), for the keys still to come.  target maps its keys to
\* dict objects, heap holds the objects' contents: the nested dict that
\* target has for a key is updated in place.
RECURSIVE deep_update_dict(_, _, _, _)
deep_update_dict(target, heap, updates, keys) ==
    IF keys = <<>> THEN [raised |-> FALSE, target |-> target, heap |-> heap]
    ELSE LET key == Head(keys)
             ref == IF key \in DOMAIN target THEN target[key] ELSE SheetRef(key)
             old == IF key \in DOMAIN target THEN heap[ref] ELSE EmptyDict
             new == CHOOSE res \in {update_attrs(old, updates[key],
                                                 items(updates[key], StyleAttrs))} : TRUE
         IN IF new.raised
            THEN [raised |-> TRUE, target |-> target,
                  heap |-> dict_set(heap, ref, new.dict)]
            ELSE deep_update_dict(dict_set(target, key, ref),
                                  dict_set(heap, ref, new.dict), updates,
                                  Tail(keys))

\* StyleBuilder._make_styles for diagram class class_ on the style table S:
\* the styles it returns and the style table after it.  dict.copy() gives a
\* new dict with the same nested dict objects; KeyError, from a class
\* without styles or from a deletion, is logged and the styles are returned
\* as they are.
make_styles(S, class_) ==
    LET global == S["__GLOBAL__"]
        copy == [k \in DOMAIN global |-> GlobalRef(k)]
        heap == [r \in {GlobalRef(k) : k \in DOMAIN global} |-> global[r[2]]]
        r == IF class_ \in DOMAIN S
             THEN deep_update_dict(copy, heap, S[class_],
                                   items(S[class_], StyleKeys))
             ELSE [raised |-> TRUE, target |-> copy, heap |-> heap]
    IN [styles |-> [k \in DOMAIN r.target |-> r.heap[r.target[k]]],
        STYLES |-> [S EXCEPT !["__GLOBAL__"] =
                        [k \in DOMAIN global |-> r.heap[GlobalRef(k)]]]]

\* The global styles, and the diagram classes with styles of their own.
GlobalStyles ==
    ("Box" :> [fill |-> "white", stroke |-> "black"])
    @@ ("Edge" :> [stroke |-> "black"])

DiagramClasses == {"Class Diagram Blank", "Logical Architecture Blank"}

\* The styles a diagram class may have for an element key.
ClassStyles ==
    {[fill |-> "blue"], [stroke |-> delete], [fill |-> "blue", stroke |-> "red"]}

\* The style tables of a diagram class: styles for "Box", for "Box.Note" or
\* for both.
ClassTables ==
    UNION {[K -> ClassStyles] : K \in {{"Box"}, {"Box.Note"}, {"Box", "Box.Note"}}}

\* The process-wide style tables.
StyleTables ==
    {("__GLOBAL__" :> GlobalStyles) @@ t : t \in [DiagramClasses -> ClassTables]}

\* A style table in which no diagram class has a key of the global styles.
DisjointSTYLES ==
    ("__GLOBAL__" :> GlobalStyles)
    @@ [c \in DiagramClasses |-> ("Box.Note" :> [fill |-> "blue"])]

InitStyles ==
    /\ STYLES = DisjointSTYLES
    /\ styles = EmptyDict
    /\ made = "none"

\* ---------------------------------------------------------------- actions

InitExceptStyles ==
    /\ measurer \in {"font", "stub"}
    /\ text \in Texts
    /\ pc = "idle"
    /\ caller = "none"
    /\ width = 0
    /\ input_lines = <<>>
    /\ output_lines = <<>>
    /\ char_split = FALSE
    /\ wrapped = <<>>
    /\ label = [x |-> 0, width |-> 0, height |-> 0]
    /\ render_icon = FALSE
    /\ text_anchor = "start"
    /\ hbounded = NoHBounded
    /\ vbounded = NoVBounded
    /\ lines_data = NoLinesData
    /\ position = [x |-> 0, icon_x |-> 0]
    /\ transform = <<>>
    /\ text_element = NoTextElement
    /\ extent_cache = <<>>
    /\ font_cache = <<>>
    /\ fallback_loads = 0
    /\ next_key = 1
    /\ next_font = 1
    /\ call = NoCall
    /\ ssv = NoSsv
    /\ InitDrawing

Init == InitExceptStyles /\ InitStyles

\* word_wrap(text, w) called as such: lines 265-266.
WordWrapCall ==
    /\ pc = "idle"
    /\ \E w \in WrapWidthsPx : width' = w * PX
    /\ caller' = "direct"
    /\ input_lines' = splitlines(text)
    /\ output_lines' = <<>>
    /\ char_split' = FALSE
    /\ pc' = "wrapping"
    /\ UNCHANGED <<ssv, drawing_vars, style_vars, cache_vars, draw_vars, measurer, text, wrapped, label_vars>>

\* One iteration of the loop of lines 267-298.
WordWrapIterate ==
    /\ pc = "wrapping"
    /\ input_lines # <<>>
    /\ LET r == WrapIteration(input_lines, output_lines, width)
       IN /\ input_lines' = r.inp
          /\ output_lines' = r.out
          /\ char_split' = (char_split \/ r.split)
    /\ UNCHANGED <<ssv, drawing_vars, style_vars, cache_vars, draw_vars, measurer, text, pc, caller, width, wrapped, label_vars>>

\* Line 300: the loop has ended.
WordWrapReturn ==
    /\ pc = "wrapping"
    /\ input_lines = <<>>
    /\ wrapped' = OrEmptyLine(output_lines)
    /\ pc' = IF caller = "direct" THEN "done" ELSE "hcheck"
    /\ UNCHANGED <<ssv, drawing_vars, style_vars, cache_vars, draw_vars, measurer, text, caller, width, input_lines, output_lines,
                   char_split, label_vars>>

\* _draw_label up to its branch on the transform, and the rotated branch
\* (drawing.py 281-329).
DrawLabel ==
    /\ pc = "idle"
    /\ \E tr \in Transforms :
          /\ transform' = tr
          /\ pc' = draw_label(tr, text).pc
          /\ text_element' = draw_label(tr, text).text_element
    /\ UNCHANGED <<ssv, drawing_vars, style_vars, cache_vars, measurer, text, wrap_vars, label_vars>>

\* render_hbounded_lines up to the word_wrap call of
\* check_for_horizontal_overflow (drawing.py 886-898, svg/helpers.py 28-30).
\* The call's fifth argument, builder.alignment, has no parameter in
\* check_for_horizontal_overflow as it stands in svg/helpers.py; the first
\* four are bound as written.
RenderHBoundedLines ==
    /\ pc = "label"
    /\ \E w \in BoxWidthsPx, icon \in BOOLEAN :
          LET pad == IF icon THEN icon_padding ELSE 0
              size == IF icon THEN icon_size ELSE 0
              max_text_width == MaxTextWidth(w * PX, pad, size)
          IN /\ label' = [label EXCEPT !.width = w * PX]
             /\ render_icon' = icon
             /\ IF max_text_width >= 0
                THEN /\ caller' = "label"
                     /\ width' = max_text_width
                     /\ input_lines' = splitlines(text)
                     /\ pc' = "wrapping"
                ELSE /\ pc' = "AssertionError"
                     /\ UNCHANGED <<caller, width, input_lines>>
    /\ output_lines' = <<>>
    /\ char_split' = FALSE
    /\ UNCHANGED <<ssv, drawing_vars, style_vars, cache_vars, draw_vars, measurer, text, wrapped, text_anchor, hbounded, vbounded,
                   lines_data, position>>

\* check_for_horizontal_overflow after word_wrap has returned (lines 31-36).
CheckForHorizontalOverflow ==
    /\ pc = "hcheck"
    /\ LET r == check_for_horizontal_overflow(
                    wrapped, label.width,
                    IF render_icon THEN icon_padding ELSE 0,
                    IF render_icon THEN icon_size ELSE 0)
       IN /\ hbounded' = r.val
          /\ pc' = IF r.ok THEN "vcheck" ELSE "AssertionError"
    /\ UNCHANGED <<ssv, drawing_vars, style_vars, cache_vars, draw_vars, measurer, text, wrap_vars, label, render_icon, text_anchor,
                   vbounded, lines_data, position>>

\* check_for_vertical_overflow as render_hbounded_lines calls it
\* (drawing.py 900-902, svg/helpers.py 39-74).
CheckForVerticalOverflow ==
    /\ pc = "vcheck"
    /\ \E h \in BoxHeightsPx :
          LET r == check_for_vertical_overflow(hbounded.lines, h * PX,
                                               hbounded.max_text_width)
          IN /\ label' = [label EXCEPT !.height = h * PX]
             /\ vbounded' = r.val
             /\ pc' = IF r.ok THEN "vdone" ELSE "AssertionError"
    /\ UNCHANGED <<ssv, drawing_vars, style_vars, cache_vars, draw_vars, measurer, text, wrap_vars, render_icon, text_anchor,
                   hbounded, lines_data, position>>

\* The rest of render_hbounded_lines (drawing.py 903-911); max() of no line
\* raises ValueError.  lines_data holds the values computed at lines 903-907
\* also when the assertion of line 908 fails on them.
RenderLinesData ==
    /\ pc = "vdone"
    /\ IF vbounded.lines_to_render = <<>>
       THEN /\ pc' = "ValueError"
            /\ UNCHANGED lines_data
       ELSE LET r == LinesData(vbounded.lines_to_render, hbounded.label_margin,
                               hbounded.max_text_width)
            IN /\ lines_data' = r.val
               /\ pc' = IF r.ok THEN "lines" ELSE "AssertionError"
    /\ UNCHANGED <<ssv, drawing_vars, style_vars, cache_vars, draw_vars, measurer, text, wrap_vars, label, render_icon, text_anchor,
                   hbounded, vbounded, position>>

\* get_label_position_x (drawing.py 914-926).
GetLabelPositionX ==
    /\ pc = "lines"
    /\ \E bx \in BoxXsPx, anchor \in {"start", "middle"} :
          LET lbl == [label EXCEPT !.x = bx * PX]
          IN /\ label' = lbl
             /\ text_anchor' = anchor
             /\ position' = get_label_position_x(lbl, anchor, lines_data,
                                                 render_icon)
    /\ pc' = "done"
    /\ UNCHANGED <<ssv, drawing_vars, style_vars, cache_vars, draw_vars, measurer, text, wrap_vars, render_icon, hbounded, vbounded,
                   lines_data>>

\* extent_func(k.text, k.fonttype, k.size), helpers.py 130-157.
ExtentFuncCall(k) ==
    LET r == extent_func_cached(extent_cache, font_cache, k.text, k.fonttype,
                                k.size)
    IN /\ extent_cache' = r.extent_cache
       /\ font_cache' = r.font_cache
       /\ fallback_loads' = fallback_loads + (IF r.loaded THEN 1 ELSE 0)
       /\ call' = [fn |-> "extent_func", text |-> k.text,
                   fonttype |-> k.fonttype, size |-> k.size,
                   result |-> r.result, hit |-> r.hit, loaded |-> r.loaded]

\* extent_func called with arguments it has not been called with before.
ExtentFuncFresh ==
    /\ next_key <= NKeys
    /\ ExtentFuncCall(KeyAt(next_key))
    /\ next_key' = next_key + 1
    /\ UNCHANGED <<ssv, drawing_vars, style_vars, layout_vars, next_font>>

\* extent_func called again with the arguments of its first call.
ExtentFuncAgain ==
    /\ next_key > 1
    /\ ExtentFuncCall(KeyAt(1))
    /\ UNCHANGED <<ssv, drawing_vars, style_vars, layout_vars, next_key, next_font>>

\* load_font(f.fonttype, f.size), helpers.py 118-127.
LoadFontCall(f) ==
    LET r == load_font(font_cache, f.fonttype, f.size)
    IN /\ font_cache' = r.cache
       /\ fallback_loads' = fallback_loads + (IF r.loaded THEN 1 ELSE 0)
       /\ call' = [fn |-> "load_font", text |-> <<>>,
                   fonttype |-> f.fonttype, size |-> f.size,
                   result |-> [w |-> 0, h |-> 0], hit |-> r.hit,
                   loaded |-> r.loaded]

\* load_font called with the fonts in turn.
LoadFontNext ==
    /\ fallback_loads < MaxFallbackLoads
    /\ LoadFontCall(FontAt(next_font))
    /\ next_font' = (next_font % NFonts) + 1
    /\ UNCHANGED <<ssv, drawing_vars, style_vars, layout_vars, extent_cache, next_key>>

\* load_font called again for the family that is not found, at the first size.
LoadFontAgain ==
    /\ fallback_loads < MaxFallbackLoads
    /\ LoadFontCall(FontAt(Len(FontTypes)))
    /\ UNCHANGED <<ssv, drawing_vars, style_vars, layout_vars, extent_cache, next_key, next_font>>

\* extent_func called, among the calls of load_font, for a text in the font
\* of the family that is not found.
ExtentFuncMissing ==
    /\ fallback_loads < MaxFallbackLoads
    /\ ExtentFuncCall(KeyAt(NFonts + Len(FontTypes)))
    /\ UNCHANGED <<ssv, drawing_vars, style_vars, layout_vars, next_key, next_font>>

\* ssvparse called with the arguments drawn.
SsvparseCall ==
    /\ ssv.outcome = "none"
    /\ ssv' = [ssv EXCEPT
                  !.outcome = ssvparse(ssv.string, ssv.cast, ssv.parens,
                                       ssv.num).outcome,
                  !.values = ssvparse(ssv.string, ssv.cast, ssv.parens,
                                      ssv.num).values]
    /\ UNCHANGED <<layout_vars, cache_vars, drawing_vars, style_vars>>

Next ==
    \/ WordWrapCall
    \/ WordWrapIterate
    \/ WordWrapReturn
    \/ DrawLabel
    \/ RenderHBoundedLines
    \/ CheckForHorizontalOverflow
    \/ CheckForVerticalOverflow
    \/ RenderLinesData
    \/ GetLabelPositionX

Spec == Init /\ [][Next]_vars

\* The measurement workload: extent_func over NKeys fresh keys, with calls of
\* the first key in between.
InitCaches == Init /\ measurer = "font" /\ text = <<>>

NextExtentCache ==
    \/ ExtentFuncFresh
    \/ ExtentFuncAgain

SpecExtentCache == InitCaches /\ [][NextExtentCache]_vars

\* ssvparse applied to every string up to MaxSsvLen characters, with either
\* cast, each pair of parentheses and each num.
InitSsvparse ==
    /\ measurer = "font"
    /\ text = <<>>
    /\ pc = "idle"
    /\ caller = "none"
    /\ width = 0
    /\ input_lines = <<>>
    /\ output_lines = <<>>
    /\ char_split = FALSE
    /\ wrapped = <<>>
    /\ label = [x |-> 0, width |-> 0, height |-> 0]
    /\ render_icon = FALSE
    /\ text_anchor = "start"
    /\ hbounded = NoHBounded
    /\ vbounded = NoVBounded
    /\ lines_data = NoLinesData
    /\ position = [x |-> 0, icon_x |-> 0]
    /\ transform = <<>>
    /\ text_element = NoTextElement
    /\ extent_cache = <<>>
    /\ font_cache = <<>>
    /\ fallback_loads = 0
    /\ next_key = 1
    /\ next_font = 1
    /\ call = NoCall
    /\ ssv \in {[NoSsv EXCEPT !.string = s, !.cast = c, !.parens = p, !.num = n] :
                    s \in SsvStrings, c \in {"str", "int"}, p \in SsvParens,
                    n \in SsvNums}
    /\ InitDrawing
    /\ InitStyles

NextSsvparse == SsvparseCall

SpecSsvparse == InitSsvparse /\ [][NextSsvparse]_vars

\* The font-loading workload: load_font over the fonts in turn, with calls of
\* load_font and of extent_func for one font in between.
NextFontCache ==
    \/ LoadFontNext
    \/ LoadFontAgain
    \/ ExtentFuncMissing

SpecFontCache == InitCaches /\ [][NextFontCache]_vars

\* draw_object(obj) for an object of the given type, classes and labels whose
\* id is not in use.
Draw(type, classes, labels) ==
    /\ \E obj \in Objects(type, classes, Ids \ DOMAIN obj_cache, labels) :
          /\ \E r \in {draw_object(obj,
                                   [defs |-> defs, deco_cache |-> deco_cache,
                                    elements |-> elements,
                                    obj_cache |-> obj_cache, raised |-> "none"],
                                   [a \in [label : {obj.label, Wide(obj.label)},
                                           transform : {obj.text_transform, <<>>},
                                           icon : BOOLEAN] |->
                                       label_raises(a.label, a.transform, a.icon)])} :
                /\ defs' = r.defs
                /\ deco_cache' = r.deco_cache
                /\ elements' = r.elements
                /\ obj_cache' = r.obj_cache
                /\ drawn' = [type |-> obj.type, class |-> obj.class,
                             id |-> obj.id, raised |-> r.raised]
    /\ UNCHANGED <<layout_vars, cache_vars, ssv, style_vars>>

\* draw_object for each type of object.  A symbol is of a class with a
\* registered symbol or of a port class; a circle has no label, a box_symbol
\* has one.
DrawBox == Draw("box", Classes, Labels \cup {NoLabel})

DrawEdge == Draw("edge", Classes, Labels \cup {NoLabel})

DrawCircle == Draw("circle", Classes, {NoLabel})

DrawSymbol ==
    Draw("symbol", Classes \cap (DecoNames \cup all_ports),
         Labels \cup {NoLabel})

DrawBoxSymbol == Draw("box_symbol", Classes, Labels)

\* draw_object for an object of a type without draw function.
DrawInvalid == Draw("polygon", Classes, {NoLabel})

NextDrawing ==
    \/ DrawBox
    \/ DrawEdge
    \/ DrawCircle
    \/ DrawSymbol
    \/ DrawBoxSymbol
    \/ DrawInvalid

\* One Drawing and the objects drawn into it.
InitDrawings == Init /\ text = <<>>

SpecDrawing == InitDrawings /\ [][NextDrawing]_vars

\* StyleBuilder(class_): create() sets self.styles = self._make_styles().
StyleBuilder(class_) ==
    /\ STYLES' = make_styles(STYLES, class_).STYLES
    /\ styles' = make_styles(STYLES, class_).styles
    /\ made' = class_
    /\ UNCHANGED <<layout_vars, cache_vars, ssv, drawing_vars>>

\* A stylesheet for a diagram class with styles of its own.
BuildStyled == \E class_ \in DiagramClasses : StyleBuilder(class_)

\* A stylesheet for a diagram class without styles of its own.
BuildUnstyled == StyleBuilder("Missions Capabilities Blank")

NextStyles ==
    \/ BuildStyled
    \/ BuildUnstyled

\* Stylesheets built one after the other, for every style table.
InitStylesheets ==
    /\ InitExceptStyles
    /\ measurer = "font"
    /\ text = <<>>
    /\ STYLES \in StyleTables
    /\ styles = EmptyDict
    /\ made = "none"

SpecStyles == InitStylesheets /\ [][NextStyles]_vars

\* ------------------------------------------------------------------ claims

\* word_wrap has returned (to either caller).
WrapReturned == pc \in {"done", "hcheck", "vcheck", "vdone", "lines"}

\* word_wrap, called as such, has returned.
DirectDone == pc = "done" /\ caller = "direct"

Lines(ls) == {ls[i] : i \in 1..Len(ls)}

\* One word or one character: non-empty and, unless a single character,
\* without whitespace.
SingleUnit(l) ==
    /\ l # <<>>
    /\ Len(l) = 1 \/ \A i \in 1..Len(l) : ~IsSpace(l[i])

RECURSIVE Flatten(_)
Flatten(ls) == IF ls = <<>> THEN <<>> ELSE Head(ls) \o Flatten(Tail(ls))

RECURSIVE NonSpace(_)
NonSpace(s) ==
    IF s = <<>> THEN <<>>
    ELSE IF IsSpace(Head(s)) THEN NonSpace(Tail(s))
    ELSE <<Head(s)>> \o NonSpace(Tail(s))

\* The pending input of word_wrap's loop, in characters, each pending line
\* counted with its line break.
RECURSIVE Pending(_)
Pending(inp) ==
    IF inp = <<>> THEN 0 ELSE Len(Head(inp)) + 1 + Pending(Tail(inp))

\* C1: word_wrap never returns an empty sequence of lines, and returns
\* exactly [""] for the empty text.
C1_NeverEmpty ==
    WrapReturned =>
        /\ wrapped # <<>>
        /\ text = <<>> => wrapped = << <<>> >>

C1_Witness == DirectDone /\ text = <<>> /\ wrapped = << <<>> >>

\* C2 as claimed: every returned line either fits the width or is a single
\* unbreakable unit (one word or one character) wider than the width.
C2_FitsOrSingleUnit ==
    WrapReturned =>
        \A l \in Lines(wrapped) :
            \/ extent_func(l).w <= width
            \/ SingleUnit(l) /\ extent_func(l).w > width

\* C2 as amended: every returned line is empty, or fits the width, or is a
\* single unbreakable unit wider than the width.
C2_EmptyOrFitsOrSingleUnit ==
    WrapReturned =>
        \A l \in Lines(wrapped) :
            \/ l = <<>>
            \/ extent_func(l).w <= width
            \/ SingleUnit(l) /\ extent_func(l).w > width

C2_Witness ==
    /\ DirectDone
    /\ width < 0
    /\ \E l \in Lines(wrapped) : l = <<>>
    /\ \E l \in Lines(wrapped) : Len(l) = 1 /\ extent_func(l).w > width

\* C3 as claimed: when word_wrap split no word, wrapping its output joined by
\* line breaks to the same width gives that output again.
C3_Idempotent ==
    (WrapReturned /\ ~char_split) =>
        word_wrap(JoinNewline(wrapped), width) = wrapped

\* C3 as amended: the same, for an output that does not end in an empty line
\* or is [""].
C3_IdempotentNoTrailingBlank ==
    (/\ WrapReturned
     /\ ~char_split
     /\ wrapped[Len(wrapped)] # <<>> \/ wrapped = << <<>> >>) =>
        word_wrap(JoinNewline(wrapped), width) = wrapped

C3_Witness ==
    /\ DirectDone
    /\ ~char_split
    /\ Len(wrapped) >= 2
    /\ wrapped[Len(wrapped)] # <<>>
    /\ wrapped # splitlines(text)
    /\ word_wrap(JoinNewline(wrapped), width) = wrapped

\* C4: every iteration of word_wrap's loop shortens the pending input, so the
\* loop ends for every text and width; every non-empty line wider than the
\* width is a single character, and no character of the text but whitespace
\* is lost.
C4_Terminates ==
    /\ [][(pc = "wrapping" /\ pc' = "wrapping") =>
              Pending(input_lines') < Pending(input_lines)]_vars
    /\ [](DirectDone =>
              /\ \A l \in Lines(wrapped) :
                     (l # <<>> /\ extent_func(l).w > width) => Len(l) = 1
              /\ NonSpace(Flatten(wrapped)) = NonSpace(text))

C4_Witness ==
    /\ DirectDone
    /\ width <= 0
    /\ char_split
    /\ Len(NonSpace(text)) >= 3
    /\ \A l \in Lines(wrapped) : Len(l) <= 1

\* check_for_vertical_overflow has returned.
VerticalReturned == pc \in {"vdone", "lines"} \/ (pc = "done" /\ caller = "label")

\* render_hbounded_lines has returned its LinesData.
LinesReturned == pc = "lines" \/ (pc = "done" /\ caller = "label")

EndsWithEllipsis(l) ==
    Len(l) >= 3 /\ SubSeq(l, Len(l) - 2, Len(l)) = Ellipsis

\* C5: the last line check_for_vertical_overflow returns ends with "..." if
\* and only if a line did not fit into the height.
C5_EllipsisIffTruncated ==
    (VerticalReturned /\ vbounded.lines_to_render # <<>>) =>
        (EndsWithEllipsis(vbounded.lines_to_render[Len(vbounded.lines_to_render)])
            <=> vbounded.stopped)

UniformLineHeight ==
    \A l \in Lines(hbounded.lines) \cup Lines(lines_data.lines) :
        extent_func(l).h = lines_data.line_height

C8_LastFittingLineEllipsized ==
    VerticalReturned =>
        LET k == Len(vbounded.lines_to_render)
            ls == hbounded.lines
        IN /\ (/\ vbounded.stopped
               /\ k >= 1
               /\ vbounded.text_height > 0 \/ extent_func(ls[1]).h <= label.height
               /\ extent_func(ls[k] \o Ellipsis).w < hbounded.max_text_width) =>
                  vbounded.lines_to_render =
                      SubSeq(ls, 1, k - 1) \o <<ls[k] \o Ellipsis>>
           /\ (/\ measurer = "stub"
               /\ ls = <<LineOne, LineTwo, LineThree>>
               /\ label.height = 2 * StubLineHeightPx * PX
               /\ hbounded.max_text_width = 200 * PX) =>
                  vbounded.lines_to_render = <<LineOne, LineTwo \o Ellipsis>>

\* C9 as claimed: with the 10-px-per-character measurer,
\* word_wrap("The quick brown fox", 60) is ["The quick", "brown fox"].
TheExample(w) ==
    DirectDone /\ measurer = "stub" /\ text = TheQuickBrownFox /\ width = w * PX

C9_TwoLinesAt60 ==
    TheExample(60) =>
        wrapped = <<SubSeq(TheQuickBrownFox, 1, 9), SubSeq(TheQuickBrownFox, 11, 19)>>

\* C9 as amended: word_wrap("The quick brown fox", 60) is
\* ["The", "quick", "brown", "fox"]; ["The quick", "brown fox"] is what width 90
\* yields.
C9_FourLinesAt60 ==
    /\ TheExample(60) =>
           wrapped = <<SubSeq(TheQuickBrownFox, 1, 3), SubSeq(TheQuickBrownFox, 5, 9),
                       SubSeq(TheQuickBrownFox, 11, 15),
                       SubSeq(TheQuickBrownFox, 17, 19)>>
    /\ TheExample(90) =>
           wrapped = <<SubSeq(TheQuickBrownFox, 1, 9),
                       SubSeq(TheQuickBrownFox, 11, 19)>>

C9_Witness == TheExample(60) /\ Len(wrapped) = 4

\* The label has been positioned with anchor "start".
PositionedAtStart == pc = "done" /\ caller = "label" /\ text_anchor = "start"

\* The horizontal margin of check_for_horizontal_overflow, from its inputs.
HorizontalMargin ==
    (label.width - (MaxWidth(hbounded.lines)
                    + (IF render_icon THEN icon_size + 2 * icon_padding ELSE 0)))
        \div 2

\* C10 as claimed: for anchor start the text x-origin is box.x + margin + icon
\* reservation, the reservation being icon_size + 2*icon_padding with an icon
\* and 0 without.
C10_StartReservesBothPaddings ==
    PositionedAtStart =>
        position.x = label.x + HorizontalMargin
                     + (IF render_icon THEN icon_size + 2 * icon_padding ELSE 0)

\* C10 as amended: for anchor start the text x-origin is box.x + margin +
\* icon offset, the offset being icon_size + icon_padding with an icon (22 for
\* icon_size 20 and icon_padding 2) and 0 without; "Hi" in a box of width 100
\* with an icon starts at box.x + 50.
C10_StartReservesOnePadding ==
    PositionedAtStart =>
        /\ position.x = label.x + HorizontalMargin
                        + (IF render_icon THEN icon_size + icon_padding ELSE 0)
        /\ (/\ measurer = "stub"
            /\ text = Hi
            /\ label.width = 100 * PX
            /\ render_icon) =>
               position.x = label.x + 50 * PX

C10_Witness ==
    /\ PositionedAtStart
    /\ measurer = "stub"
    /\ text = Hi
    /\ label.width = 100 * PX
    /\ render_icon
    /\ lines_data.margin = 28 * PX
    /\ position.x = label.x + 50 * PX

\* The label has been positioned with anchor "middle".
PositionedAtMiddle == pc = "done" /\ caller = "label" /\ text_anchor = "middle"

\* For anchor middle the text x-origin is the midpoint of the text block: the
\* distances from the box's left edge to the block's left edge, and from the
\* block's right edge to the box's right edge.
TextLeftMargin == (position.x - lines_data.max_line_width \div 2) - label.x

TextRightMargin ==
    (label.x + label.width) - (position.x + lines_data.max_line_width \div 2)

\* C11 as claimed: for anchor middle the text block is centred in the box, its
\* left and right margins being equal.
C11_MiddleSymmetric ==
    PositionedAtMiddle => TextLeftMargin = TextRightMargin

\* C11 as amended: for anchor middle the text block is centred in the box
\* when no icon is rendered; with an icon its midpoint lies
\* (icon_size + icon_padding)/2 right of the box's centre, so the left margin
\* exceeds the right margin by icon_size + icon_padding.
C11_MiddleShiftedByIcon ==
    PositionedAtMiddle =>
        TextLeftMargin - TextRightMargin =
            IF render_icon THEN icon_size + icon_padding ELSE 0

C11_Witness ==
    /\ PositionedAtMiddle
    /\ render_icon
    /\ lines_data.max_line_width > 0
    /\ TextLeftMargin - TextRightMargin = 22 * PX

\* The box is too small for the icon reservation.
TooSmallForIcon == render_icon /\ label.width < icon_size + 2 * icon_padding

\* C13: for a box narrower than icon_size + 2*icon_padding,
\* check_for_horizontal_overflow fails its assertion before anything is
\* wrapped: no line is wrapped, no result is returned and no later step of the
\* layout runs.
C13_TooSmallRejected ==
    TooSmallForIcon =>
        /\ pc = "AssertionError"
        /\ input_lines = <<>> /\ output_lines = <<>> /\ wrapped = <<>>
        /\ hbounded = NoHBounded
        /\ vbounded = NoVBounded
        /\ lines_data = NoLinesData

C13_Witness ==
    /\ TooSmallForIcon
    /\ pc = "AssertionError"
    /\ label.width = 20 * PX
    /\ text # <<>>

\* check_for_vertical_overflow has run to its last line (the assertion of
\* line 73 included).
VerticalRan == vbounded # NoVBounded

\* C14: for a non-negative height check_for_vertical_overflow returns at
\* least one line (its assertion holds and the line-height computation after
\* it has a line to measure); when not even the first line fits, the
\* ellipsized candidate is the only line returned.
C14_NonEmptyResult ==
    (VerticalRan /\ label.height >= 0) =>
        /\ vbounded.lines_to_render # <<>>
        /\ pc # "ValueError"
        /\ pc = "AssertionError" => lines_data # NoLinesData
        /\ extent_func(hbounded.lines[1]).h > label.height =>
               /\ Len(vbounded.lines_to_render) = 1
               /\ EndsWithEllipsis(vbounded.lines_to_render[1])

C14_Witness ==
    /\ VerticalReturned
    /\ label.height >= 0
    /\ Len(hbounded.lines) >= 2
    /\ extent_func(hbounded.lines[1]).h > label.height
    /\ Len(vbounded.lines_to_render) = 1
    /\ EndsWithEllipsis(vbounded.lines_to_render[1])

\* The outputs of the input lines ls, each wrapped by itself to width w,
\* one after the other; an empty line gives one empty output line.
RECURSIVE LineOutputs(_, _)
LineOutputs(ls, w) ==
    IF ls = <<>> THEN <<>>
    ELSE (IF Head(ls) = <<>> THEN << <<>> >>
          ELSE word_wrap_loop(<<Head(ls)>>, <<>>, w))
         \o LineOutputs(Tail(ls), w)

\* C19: the output of word_wrap is the outputs of its input lines in input
\* order, an empty input line giving one empty output line at its place
\* between the outputs of its neighbours.
C19_EmptyLinesKeptInOrder ==
    (WrapReturned /\ splitlines(text) # <<>>) =>
        wrapped = LineOutputs(splitlines(text), width)

C19_Witness ==
    /\ DirectDone
    /\ Len(splitlines(text)) = 3
    /\ splitlines(text)[1] # <<>>
    /\ splitlines(text)[2] = <<>>
    /\ splitlines(text)[3] # <<>>
    /\ wrapped = splitlines(text)

\* The summed heights of the first n lines of ls.
RECURSIVE SumHeights(_, _)
SumHeights(ls, n) ==
    IF n = 0 THEN 0 ELSE SumHeights(ls, n - 1) + extent_func(ls[n]).h

\* The number of leading lines of the wrapped label text that fit into the
\* box height together.
FittingLines ==
    CHOOSE k \in 0..Len(hbounded.lines) :
        /\ \A j \in 1..k : SumHeights(hbounded.lines, j) <= label.height
        /\ k < Len(hbounded.lines) =>
               SumHeights(hbounded.lines, k + 1) > label.height

\* C20 as claimed: when a line does not fit, the overflow candidate is that
\* line, the one after the lines that fit.
C20_CandidateIsTriggeringLine ==
    (VerticalRan /\ vbounded.stopped) =>
        vbounded.overflow = hbounded.lines[FittingLines + 1]

\* C20 as amended: when a line does not fit, the overflow candidate is the
\* last of the lines that fit (an accepted line); it is the line that does
\* not fit only when that is the very first line.
C20_CandidateIsLastAccepted ==
    (VerticalRan /\ vbounded.stopped) =>
        /\ FittingLines < Len(hbounded.lines)
        /\ vbounded.overflow =
               IF FittingLines >= 1 THEN hbounded.lines[FittingLines]
               ELSE hbounded.lines[1]

C20_Witness ==
    /\ VerticalReturned
    /\ vbounded.stopped
    /\ FittingLines >= 1
    /\ hbounded.lines[FittingLines] # hbounded.lines[FittingLines + 1]
    /\ vbounded.overflow = hbounded.lines[FittingLines]

\* The whitespace at the beginning of line l.
Lead(l) == SubSeq(l, 1, LeadingSpace(l))

IsPrefix(p, s) == Len(p) <= Len(s) /\ SubSeq(s, 1, Len(p)) = p

\* After its leading whitespace, line o is words separated by exactly one
\* space each.
SingleSpaced(o) ==
    \A i \in (LeadingSpace(o) + 1)..Len(o) :
        IsSpace(o[i]) => (o[i] = SP /\ i < Len(o) /\ ~IsSpace(o[i + 1]))

SpecifiesRotation(tr) == \E i \in 1..Len(tr) : tr[i] = "rotate("

\* The angle of the (first) rotation of tr.
RotationAngle(tr) ==
    tr[(CHOOSE i \in 1..Len(tr) :
            tr[i] = "rotate(" /\ \A j \in 1..(i - 1) : tr[j] # "rotate(") + 1]

\* C12: once a label whose style specifies a rotation by an angle other than
\* -90 degrees is drawn, the drawing has been rejected with
\* NotImplementedError and no text element has been added.
C12_OtherAngleRejected ==
    (/\ pc # "idle"
     /\ SpecifiesRotation(transform)
     /\ NumberValue(RotationAngle(transform)) # 0 - 90) =>
        /\ pc = "NotImplementedError"
        /\ text_element = NoTextElement

\* C15: every value extent_func returns, and every value its cache holds, is
\* what the computation without cache gives for the same text, font family
\* and size, and the cache never holds more than 256 entries.
C15_CacheTransparent ==
    /\ call.fn = "extent_func" =>
           call.result = extent_func_uncached(call.text, call.fonttype, call.size)
    /\ \A i \in 1..Len(extent_cache) :
           extent_cache[i].val =
               extent_func_uncached(extent_cache[i].key.text,
                                    extent_cache[i].key.fonttype,
                                    extent_cache[i].key.size)
    /\ Len(extent_cache) <= 256

\* The first key has been evicted and measured anew.
C15_Witness ==
    /\ call.fn = "extent_func"
    /\ call.text = KeyAt(1).text
    /\ call.fonttype = KeyAt(1).fonttype
    /\ call.size = KeyAt(1).size
    /\ ~call.hit
    /\ next_key > extent_maxsize + 1
    /\ Len(extent_cache) = 256

\* ImageFont.truetype finds the family under none of the names load_font
\* tries.
Unresolvable(fonttype) ==
    {fonttype, upper(fonttype), lower(fonttype)} \cap Installed = {}

\* The cache of load_font holds the font of this family and size.
HasFont(fc, fonttype, size) ==
    \E i \in 1..Len(fc) : fc[i].key.fonttype = fonttype /\ fc[i].key.size = size

\* C16 as claimed: the fallback font file is opened at most once.
C16_FallbackLoadedOnce == fallback_loads <= 1

\* The call made by this step has run the body of load_font's wrapper: it
\* is a call of load_font, or one of extent_func that its cache did not answer.
LoadFontInvoked == call'.fn = "load_font" \/ ~call'.hit

\* C16 as amended: a call opens the fallback font file, once, exactly when it
\* reaches load_font for a family that is not found while load_font's cache
\* does not hold the font of this family and size (it was never loaded or has
\* been evicted); the cache holds at most 8 fonts.
C16_FallbackLoadedPerMiss ==
    [][/\ fallback_loads' = fallback_loads + (IF call'.loaded THEN 1 ELSE 0)
       /\ call'.loaded <=> (/\ LoadFontInvoked
                            /\ Unresolvable(call'.fonttype)
                            /\ ~HasFont(font_cache, call'.fonttype, call'.size))
       /\ LoadFontInvoked => HasFont(font_cache', call'.fonttype, call'.size)
       /\ Len(font_cache') <= 8]_vars

\* The fallback font is loaded again for a family and size it was loaded for
\* before, the cache being full.
C16_Witness ==
    /\ call.fn = "load_font"
    /\ call.loaded
    /\ call.fonttype = "missing.ttf"
    /\ call.size = 8
    /\ fallback_loads >= 4
    /\ Len(font_cache) = 8

\* The text of ssvparse's string between the parentheses.
Between(s, parens) == SubSeq(s, Len(parens[1]) + 1, Len(s) - Len(parens[2]))

\* C17: for a string that starts with parens[0] and ends with parens[1] and
\* whose comma-separated values between the parentheses can all be cast,
\* ssvparse returns these values cast, in order, unless num is non-zero and
\* differs from their number, when it raises ValueError; for a string without
\* the parentheses it raises ValueError.
C17_ValuesBetweenParens ==
    ssv.outcome # "none" =>
        IF startswith(ssv.string, ssv.parens[1])
           /\ endswith(ssv.string, ssv.parens[2])
        THEN LET vs == split_sep(Between(ssv.string, ssv.parens), ",")
             IN (\A i \in 1..Len(vs) : Castable(ssv.cast, vs[i])) =>
                    IF ssv.num # 0 /\ Len(vs) # ssv.num
                    THEN ssv.outcome = "ValueError"
                    ELSE /\ ssv.outcome = "return"
                         /\ ssv.values =
                                [i \in 1..Len(vs) |-> CastOf(ssv.cast, vs[i])]
        ELSE ssv.outcome = "ValueError"

\* The last of the lines check_for_vertical_overflow returns.
LastRendered == vbounded.lines_to_render[Len(vbounded.lines_to_render)]

\* C21: when a line did not fit, the last line returned is the overflow
\* candidate with "..." appended if that is no wider than max_text_width, and
\* otherwise the first line of the candidate wrapped to max_text_width minus
\* the width of "...", with "..." appended.
C21_EllipsisFitsOrRewrapped ==
    (VerticalReturned /\ vbounded.stopped) =>
        LastRendered =
            IF extent_func(vbounded.overflow \o Ellipsis).w
                   <= hbounded.max_text_width
            THEN vbounded.overflow \o Ellipsis
            ELSE word_wrap(vbounded.overflow,
                           hbounded.max_text_width - extent_func(Ellipsis).w)[1]
                 \o Ellipsis

\* The first word of line l with the line's leading whitespace, and the
\* words after it.
FirstWord(l) == Lead(l) \o Head(split(l))

OtherWords(l) == Tail(split(l))

\* The length of the longest prefix of word that is no wider than w; 1 when
\* not even its first character fits.
LongestFittingPrefix(word, w) ==
    LET fits == {n \in 1..Len(word) : extent_func(SubSeq(word, 1, n)).w <= w}
    IN IF fits = {} THEN 1 ELSE CHOOSE n \in fits : \A m \in fits : m <= n

\* The first word of the first pending line is wider than the width.
FirstWordTooWide ==
    /\ pc = "wrapping"
    /\ input_lines # <<>>
    /\ split(Head(input_lines)) # <<>>
    /\ extent_func(FirstWord(Head(input_lines))).w > width

\* C22: when the first pending word is wider than the width, the iteration
\* emits the longest prefix of the word that fits (at least one character)
\* and puts the rest of the word followed by the other words of the line, in
\* order, in front of the pending input lines.
C22_LongestPrefixThenRemainder ==
    [][FirstWordTooWide =>
          LET word == FirstWord(Head(input_lines))
              n == LongestFittingPrefix(word, width)
              rest == IF n < Len(word)
                      THEN <<SubSeq(word, n + 1, Len(word))>>
                      ELSE <<>>
          IN /\ output_lines' = Append(output_lines, SubSeq(word, 1, n))
             /\ input_lines' =
                    <<JoinSpace(rest \o OtherWords(Head(input_lines)))>>
                    \o Tail(input_lines)]_vars

C22_Witness ==
    /\ DirectDone
    /\ text = TheQuickBrownFox
    /\ width = 20 * PX
    /\ Len(wrapped) >= 3
    /\ wrapped[1] = <<"T", "h">>
    /\ wrapped[2] = <<"e">>
    /\ wrapped[3] = <<"q", "u">>

\* The pending words of line l, the first with the line's leading whitespace.
PendingWords(l) == <<FirstWord(l)>> \o OtherWords(l)

\* The numbers of leading words of l whose space-joined text is no wider than
\* the width.
FittingCounts(l) ==
    {n \in 1..Len(PendingWords(l)) :
        extent_func(JoinSpace(SubSeq(PendingWords(l), 1, n))).w <= width}

\* The first pending line has words and at least its first word fits.
FirstWordFits ==
    /\ pc = "wrapping"
    /\ input_lines # <<>>
    /\ split(Head(input_lines)) # <<>>
    /\ FittingCounts(Head(input_lines)) # {}

\* C23: an iteration that emits whole words emits the largest number of
\* leading pending words whose space-joined text fits the width: it either
\* takes all the words of the line or the next word would not have fitted.
C23_Greedy ==
    [][FirstWordFits =>
          LET l == Head(input_lines)
              k == CHOOSE n \in FittingCounts(l) :
                       \A m \in FittingCounts(l) : m <= n
          IN /\ output_lines' =
                    Append(output_lines, JoinSpace(SubSeq(PendingWords(l), 1, k)))
             /\ \/ k = Len(PendingWords(l))
                \/ extent_func(JoinSpace(SubSeq(PendingWords(l), 1, k + 1))).w
                       > width]_vars

C23_Witness ==
    /\ TheExample(90)
    /\ Len(wrapped) = 2
    /\ wrapped[1] = SubSeq(TheQuickBrownFox, 1, 9)
    /\ wrapped[2] = SubSeq(TheQuickBrownFox, 11, 19)

\* The room the icon takes in the label box.
IconRoom == IF render_icon THEN icon_size + 2 * icon_padding ELSE 0

\* C24: when check_for_horizontal_overflow returns, twice its margin is the
\* box width minus the widest wrapped line and the icon room, the margin is
\* not negative and no returned line is wider than max_text_width; when a
\* wrapped line is wider than max_text_width the call fails its assertion.
C24_MarginOrRejected ==
    [][pc = "hcheck" =>
          IF \A l \in Lines(wrapped) :
                 extent_func(l).w <= label.width - IconRoom
          THEN /\ pc' = "vcheck"
               /\ hbounded'.lines = wrapped
               /\ hbounded'.max_text_width = label.width - IconRoom
               /\ 2 * hbounded'.label_margin =
                      label.width - (MaxWidth(wrapped) + IconRoom)
               /\ hbounded'.label_margin >= 0
          ELSE pc' = "AssertionError"]_vars

C24_Witness ==
    /\ pc = "vcheck"
    /\ render_icon
    /\ text = Hi
    /\ measurer = "stub"
    /\ label.width = 100 * PX
    /\ hbounded.lines = <<Hi>>
    /\ hbounded.label_margin = 28 * PX

\* A wrapped line wider than the box made the call fail.
C24_Rejected ==
    /\ pc = "AssertionError"
    /\ caller = "label"
    /\ wrapped # <<>>
    /\ hbounded = NoHBounded
    /\ \E l \in Lines(wrapped) : extent_func(l).w > label.width - IconRoom

\* Neither word_wrap nor the overflow checks nor the position functions have
\* run for the label.
LayoutBypassed ==
    /\ caller = "none"
    /\ wrapped = <<>>
    /\ hbounded = NoHBounded
    /\ vbounded = NoVBounded
    /\ lines_data = NoLinesData
    /\ position = [x |-> 0, icon_x |-> 0]

\* The transform specifies a rotation by -90 degrees.
SpecifiesMinus90 ==
    SpecifiesRotation(transform) /\ NumberValue(RotationAngle(transform)) = 0 - 90

\* C25: once a label whose style specifies a rotation by -90 degrees is
\* drawn, its text element holds exactly one span, with the complete label
\* text, and no wrapping, overflow check or positioning has taken place.
C25_RotatedSingleSpan ==
    (pc # "idle" /\ SpecifiesMinus90) =>
        /\ pc = "rotated"
        /\ text_element.added
        /\ Len(text_element.tspans) = 1
        /\ text_element.tspans[1].text = text
        /\ LayoutBypassed

\* The same for the one form of transform that RE_ROTATION matches with the
\* angle written "-90".
C25_MatchedSingleSpan ==
    (pc # "idle" /\ RE_ROTATION(transform).found
                /\ RE_ROTATION(transform).angle = "-90") =>
        /\ pc = "rotated"
        /\ text_element.added
        /\ Len(text_element.tspans) = 1
        /\ text_element.tspans[1].text = text
        /\ LayoutBypassed

\* The number of lines of ls without a character.
EmptyCount(ls) == Cardinality({i \in 1..Len(ls) : ls[i] = <<>>})

\* The number of lines of ls that are empty or of whitespace only.
BlankCount(ls) == Cardinality({i \in 1..Len(ls) : split(ls[i]) = <<>>})

\* C26: word_wrap returns as many empty lines as the text has empty or
\* whitespace-only lines (one for the empty text).
C26_NoInventedBlankLines ==
    WrapReturned =>
        EmptyCount(wrapped) =
            IF text = <<>> THEN 1 ELSE BlankCount(splitlines(text))

\* The label has been laid out and positioned.
Positioned == pc = "done" /\ caller = "label"

C27_InsideUnlessTruncatedAtStart ==
    (Positioned /\ (text_anchor = "start" => ~vbounded.stopped)) =>
        IF text_anchor = "start"
        THEN position.x + lines_data.max_line_width <= label.x + label.width
        ELSE /\ 2 * position.x - lines_data.max_line_width >= 2 * label.x
             /\ 2 * position.x + lines_data.max_line_width
                    <= 2 * (label.x + label.width)

\* A symbol name with all the names it depends on, directly or not.
RECURSIVE Closure(_)
Closure(name) ==
    {name} \cup UNION {Closure(dependencies(name)[i]) :
                           i \in 1..Len(dependencies(name))}

\* C28: no symbol definition is in the drawing's defs twice, and every name
\* in deco_cache is in defs and in deco_cache with all the names it depends
\* on.
C28_DefsOnceAndClosed ==
    /\ \A i, j \in 1..Len(defs) : defs[i] = defs[j] => i = j
    /\ \A name \in deco_cache :
           Closure(name) \subseteq deco_cache \cap Lines(defs)

C28_Witness ==
    /\ defs = <<"LogicalHumanComponent", "LogicalHumanActor", "StickFigure">>
    /\ deco_cache = {"LogicalHumanComponent", "LogicalHumanActor", "StickFigure"}
    /\ DOMAIN obj_cache = Ids
    /\ \A id \in Ids : obj_cache[id] = [type |-> "symbol",
                                        class |-> "LogicalHumanComponent"]
    /\ Len(elements) = 3

\* C29: building a stylesheet leaves the process-wide style table as it is.
C29_GlobalStylesUnchanged == [][STYLES' = STYLES]_vars

\* C30: a call of draw_object that raises leaves the drawing's defs and
\* elements, obj_cache and deco_cache as they were.
C30_AllOrNothing ==
    [][drawn'.raised # "none" =>
          UNCHANGED <<defs, deco_cache, elements, obj_cache>>]_vars

\* The same for an object of an invalid type alone.
C30_InvalidTypeChangesNothing ==
    [][drawn'.raised = "ValueError" =>
          UNCHANGED <<defs, deco_cache, elements, obj_cache>>]_vars

====
